---- MODULE Spec2Model ----
(***************************************************************************)
(* AddonReviewListItem (src/amo/components/AddonReviewListItem/index.js):  *)
(* the review list item component, its six event handlers, its render      *)
(* functions and mapStateToProps, together with the redux store that       *)
(* commits the requests the handlers dispatch.                             *)
(*                                                                         *)
(* Reviews form one chain: review 1 is the top-level review, review k+1 is *)
(* the reply of review k.  chainLen is the number of reviews that exist    *)
(* (0: the top-level review has not been loaded).                          *)
(***************************************************************************)
EXTENDS Integers, Sequences, FiniteSets, TLC

\* Bounds of the model.
MaxId == 2
NumUsers == 2
MaxPending == 1
MaxInFlight == 1

\* JavaScript's undefined / null, for identifiers (identifiers are >= 1).
Undefined == 0
NoText == ""

Ids == 1..MaxId
Users == 1..NumUsers
Texts == {"a", "b"}

VARIABLES
  chainLen,       \* number of existing reviews of the chain
  userId,         \* review.userId, per review identifier
  body,           \* review.body, per review identifier
  addon,          \* the addon prop: [present, authors]
  user,           \* state.user: [id]
  authenticated,  \* isAuthenticated(state)
  view,           \* state.reviews.view: per review identifier
  errors,         \* error handler ids that currently hold an error
  pending,        \* requests dispatched to the store, not yet committed
  inFlight,       \* send-reply requests committed, response outstanding
  last            \* what the latest step did: the handler called or the
                  \* store's step, with the requests dispatched or handled

vars == <<chainLen, userId, body, addon, user, authenticated, view, errors,
          pending, inFlight, last>>

----------------------------------------------------------------------------
\* Data

\* PropsType: the own props that distinguish one item from another.
ItemOf(replyTo, rev) == [isReplyToReviewId |-> replyTo, review |-> rev]

\* Every combination of own props a caller can pass.
Items == {ItemOf(p, r) : p \in 0..MaxId, r \in 0..chainLen}

\* UserReviewType: the review object with identifier k.
Review(k) ==
  [id |-> k, userId |-> userId[k], body |-> body[k],
   reply |-> IF k + 1 <= chainLen THEN k + 1 ELSE Undefined]

\* withErrorHandler gives each component instance an error handler with an id.
ErrorHandlerId(item) == 1 + item.isReplyToReviewId * (MaxId + 1) + item.review

NoView ==
  [present |-> FALSE, editingReview |-> FALSE, replyingToReview |-> FALSE,
   submittingReply |-> FALSE]

\* The action creators of amo/actions/reviews.
Request(type, reviewId) ==
  [type |-> type, reviewId |-> reviewId, errorHandlerId |-> 0, body |-> NoText]

showEditReviewForm(reviewId) == Request("SHOW_EDIT_REVIEW_FORM", reviewId)
hideEditReviewForm(reviewId) == Request("HIDE_EDIT_REVIEW_FORM", reviewId)
showReplyToReviewForm(reviewId) == Request("SHOW_REPLY_TO_REVIEW_FORM", reviewId)
hideReplyToReviewForm(reviewId) == Request("HIDE_REPLY_TO_REVIEW_FORM", reviewId)

sendReplyToReview(errorHandlerId, originalReviewId, text) ==
  [type |-> "SEND_REPLY_TO_REVIEW", reviewId |-> originalReviewId,
   errorHandlerId |-> errorHandlerId, body |-> text]

\* isAddonAuthor of core/utils.
isAddonAuthor(a, uid) == a.present /\ uid # Undefined /\ uid \in a.authors

----------------------------------------------------------------------------
\* mapStateToProps and the props of an item

\* mapStateToProps reading replyingToReview from the entry's editingReview.
mapStateToProps_WrongFlag(ownProps) ==
  LET hasView == ownProps.review # Undefined /\ view[ownProps.review].present
  IN [editingReview |-> hasView /\ view[ownProps.review].editingReview,
      isAuthenticated |-> authenticated,
      replyingToReview |-> hasView /\ view[ownProps.review].editingReview,
      siteUser |-> user,
      submittingReply |-> hasView /\ view[ownProps.review].submittingReply]

\* mapStateToProps reading submittingReply from the entry's replyingToReview.
mapStateToProps_SubmittingFromReplying(ownProps) ==
  LET hasView == ownProps.review # Undefined /\ view[ownProps.review].present
  IN [editingReview |-> hasView /\ view[ownProps.review].editingReview,
      isAuthenticated |-> authenticated,
      replyingToReview |-> hasView /\ view[ownProps.review].replyingToReview,
      siteUser |-> user,
      submittingReply |-> hasView /\ view[ownProps.review].replyingToReview]

\* mapStateToProps of a reply view reading the entry of the parent review.
mapStateToProps_ParentEntry(ownProps) ==
  LET key == IF ownProps.isReplyToReviewId # Undefined
             THEN ownProps.isReplyToReviewId ELSE ownProps.review
      hasView == ownProps.review # Undefined /\ view[key].present
  IN [editingReview |-> hasView /\ view[key].editingReview,
      isAuthenticated |-> authenticated,
      replyingToReview |-> hasView /\ view[key].replyingToReview,
      siteUser |-> user,
      submittingReply |-> hasView /\ view[key].submittingReply]

mapStateToProps(ownProps) ==
  LET hasView == ownProps.review # Undefined /\ view[ownProps.review].present
  IN [editingReview |-> hasView /\ view[ownProps.review].editingReview,
      isAuthenticated |-> authenticated,
      replyingToReview |-> hasView /\ view[ownProps.review].replyingToReview,
      siteUser |-> user,
      submittingReply |-> hasView /\ view[ownProps.review].submittingReply]

Props(item) ==
  LET m == mapStateToProps(item)
  IN [addon |-> addon,
      isReplyToReviewId |-> item.isReplyToReviewId,
      review |-> item.review,
      editingReview |-> m.editingReview,
      isAuthenticated |-> m.isAuthenticated,
      replyingToReview |-> m.replyingToReview,
      siteUser |-> m.siteUser,
      submittingReply |-> m.submittingReply,
      errorHandlerId |-> ErrorHandlerId(item),
      hasError |-> ErrorHandlerId(item) \in errors]

----------------------------------------------------------------------------
\* Rendering

NoItem == ItemOf(Undefined, Undefined)

\* renderReply() with a composer that is never pre-filled and always carries
\* the 'publish' labels.
renderReply_AlwaysPublish(props) ==
  IF props.review = Undefined
     \/ (Review(props.review).reply = Undefined /\ ~props.replyingToReview)
  THEN [kind |-> "null", isSubmitting |-> FALSE, submitButtonText |-> NoText,
        submitButtonInProgressText |-> NoText, text |-> NoText,
        child |-> NoItem]
  ELSE LET review == Review(props.review)
       IN IF props.replyingToReview
          THEN [kind |-> "DismissibleTextForm",
                isSubmitting |-> props.submittingReply /\ ~props.hasError,
                submitButtonText |-> "Publish reply",
                submitButtonInProgressText |-> "Publishing reply",
                text |-> NoText,
                child |-> NoItem]
          ELSE [kind |-> "AddonReviewListItem", isSubmitting |-> FALSE,
                submitButtonText |-> NoText,
                submitButtonInProgressText |-> NoText, text |-> NoText,
                child |-> ItemOf(review.id, review.reply)]

\* renderReply() with a composer whose in-progress indication ignores the
\* error handler.
renderReply_IgnoresError(props) ==
  IF props.review = Undefined
     \/ (Review(props.review).reply = Undefined /\ ~props.replyingToReview)
  THEN [kind |-> "null", isSubmitting |-> FALSE, submitButtonText |-> NoText,
        submitButtonInProgressText |-> NoText, text |-> NoText,
        child |-> NoItem]
  ELSE LET review == Review(props.review)
       IN IF props.replyingToReview
          THEN [kind |-> "DismissibleTextForm",
                isSubmitting |-> props.submittingReply,
                submitButtonText |->
                  IF review.reply # Undefined THEN "Update reply"
                                              ELSE "Publish reply",
                submitButtonInProgressText |->
                  IF review.reply # Undefined THEN "Updating reply"
                                              ELSE "Publishing reply",
                text |-> IF review.reply # Undefined
                         THEN Review(review.reply).body ELSE NoText,
                child |-> NoItem]
          ELSE [kind |-> "AddonReviewListItem", isSubmitting |-> FALSE,
                submitButtonText |-> NoText,
                submitButtonInProgressText |-> NoText, text |-> NoText,
                child |-> ItemOf(review.id, review.reply)]

\* renderReply(): the reply content block.
renderReply(props) ==
  IF props.review = Undefined
     \/ (Review(props.review).reply = Undefined /\ ~props.replyingToReview)
  THEN [kind |-> "null", isSubmitting |-> FALSE, submitButtonText |-> NoText,
        submitButtonInProgressText |-> NoText, text |-> NoText,
        child |-> NoItem]
  ELSE LET review == Review(props.review)
       IN IF props.replyingToReview
          THEN [kind |-> "DismissibleTextForm",
                isSubmitting |-> props.submittingReply /\ ~props.hasError,
                submitButtonText |->
                  IF review.reply # Undefined THEN "Update reply"
                                              ELSE "Publish reply",
                submitButtonInProgressText |->
                  IF review.reply # Undefined THEN "Updating reply"
                                              ELSE "Publishing reply",
                text |-> IF review.reply # Undefined
                         THEN Review(review.reply).body ELSE NoText,
                child |-> NoItem]
          ELSE [kind |-> "AddonReviewListItem", isSubmitting |-> FALSE,
                submitButtonText |-> NoText,
                submitButtonInProgressText |-> NoText, text |-> NoText,
                child |-> ItemOf(review.id, review.reply)]

\* showEditControl without the check that the viewer is signed in.
showEditControl_NoAuthCheck(props) ==
  /\ props.review # Undefined
  /\ Review(props.review).userId = props.siteUser.id

\* The condition under which render() shows the edit link (and, inside the
\* same element, the edit overlay).
showEditControl(props) ==
  /\ props.isAuthenticated
  /\ props.review # Undefined
  /\ Review(props.review).userId = props.siteUser.id

\* showBeginReply without the check that the review has no reply yet.
showBeginReply_NoReplyCheck(props) ==
  /\ props.review # Undefined
  /\ props.addon.present
  /\ props.siteUser.present
  /\ ~props.replyingToReview
  /\ isAddonAuthor(props.addon, props.siteUser.id)
  /\ Review(props.review).userId # props.siteUser.id

\* showBeginReply without the check that the viewer did not write the review.
showBeginReply_NoAuthorCheck(props) ==
  /\ props.review # Undefined
  /\ props.addon.present
  /\ props.siteUser.present
  /\ ~props.replyingToReview
  /\ Review(props.review).reply = Undefined
  /\ isAddonAuthor(props.addon, props.siteUser.id)

\* The condition under which render() shows the "Reply to this review" link.
showBeginReply(props) ==
  /\ props.review # Undefined
  /\ props.addon.present
  /\ props.siteUser.present
  /\ ~props.replyingToReview
  /\ Review(props.review).reply = Undefined
  /\ isAddonAuthor(props.addon, props.siteUser.id)
  /\ Review(props.review).userId # props.siteUser.id

\* showRating without the check that the review is loaded.
showRating_NoReviewCheck(props) == props.isReplyToReviewId = Undefined

\* The condition under which render() shows the rating.
showRating(props) ==
  props.review # Undefined /\ props.isReplyToReviewId = Undefined

\* render(): what the item shows.
render(props) ==
  LET isReply == props.isReplyToReviewId # Undefined
      loaded == props.review # Undefined
  IN [title |-> IF loaded THEN "review.title" ELSE "LoadingText",
      reviewBody |-> IF loaded THEN "review.body" ELSE "LoadingText",
      byline |-> IF loaded
                 THEN (IF isReply THEN "posted" ELSE "by")
                 ELSE "LoadingText",
      rating |-> showRating(props),
      editLink |-> showEditControl(props),
      editLabel |-> IF ~showEditControl(props) THEN NoText
                    ELSE IF isReply THEN "Edit my reply"
                    ELSE "Edit my review",
      editOverlay |-> showEditControl(props) /\ props.editingReview,
      beginReply |-> showBeginReply(props),
      error |-> props.hasError,
      reply |-> renderReply(props)]

Render(item) == render(Props(item))

\* The items on the page: the top-level item and, at each level, the nested
\* item the reply content block renders.
RootItem == ItemOf(Undefined, IF chainLen >= 1 THEN 1 ELSE Undefined)

RECURSIVE MountedFrom(_, _)
MountedFrom(item, depth) ==
  LET r == renderReply(Props(item))
  IN IF depth = 0 \/ r.kind # "AddonReviewListItem"
     THEN {item}
     ELSE {item} \cup MountedFrom(r.child, depth - 1)

Mounted == MountedFrom(RootItem, MaxId)

----------------------------------------------------------------------------
\* Initial state

NoCall ==
  [op |-> "none", item |-> NoItem, text |-> NoText, requests |-> <<>>,
   threw |-> FALSE]

\* A step of the store or of the server, and the request it handled.
StoreStep(op, requests) ==
  [op |-> op, item |-> NoItem, text |-> NoText, requests |-> requests,
   threw |-> FALSE]

Init ==
  /\ chainLen = 0
  /\ userId = [k \in Ids |-> 1]
  /\ body = [k \in Ids |-> "a"]
  /\ addon \in {[present |-> FALSE, authors |-> {}]}
                 \cup {[present |-> TRUE, authors |-> a] : a \in SUBSET Users}
  /\ user \in {[present |-> TRUE, id |-> u] : u \in Users \cup {Undefined}}
  /\ authenticated \in BOOLEAN
  /\ view = [k \in Ids |-> NoView]
  /\ errors = {}
  /\ pending = <<>>
  /\ inFlight = {}
  /\ last = NoCall

----------------------------------------------------------------------------
\* The event handlers of AddonReviewListItemBase

\* One handler call: what it dispatched and whether it threw.  dispatch()
\* hands each request to the store.
Call(op, item, text, dispatched, threw) ==
  /\ Len(pending) + Len(dispatched) <= MaxPending
  /\ pending' = pending \o dispatched
  /\ last' = [op |-> op, item |-> item, text |-> text,
              requests |-> dispatched, threw |-> threw]
  /\ UNCHANGED <<chainLen, userId, body, addon, user, authenticated, view,
                 errors, inFlight>>

\* onClickToEditReview with the missing-review guard ahead of the reply route.
onClickToEditReview_GuardFirst(item) ==
  LET props == Props(item)
  IN IF props.review = Undefined
     THEN Call("onClickToEditReview", item, NoText, <<>>, FALSE)
     ELSE IF props.isReplyToReviewId # Undefined
     THEN Call("onClickToEditReview", item, NoText,
               <<showReplyToReviewForm(props.isReplyToReviewId)>>, FALSE)
     ELSE Call("onClickToEditReview", item, NoText,
               <<showEditReviewForm(Review(props.review).id)>>, FALSE)

onClickToEditReview(item) ==
  LET props == Props(item)
  IN IF props.isReplyToReviewId # Undefined
     THEN Call("onClickToEditReview", item, NoText,
               <<showReplyToReviewForm(props.isReplyToReviewId)>>, FALSE)
     ELSE IF props.review = Undefined
     THEN Call("onClickToEditReview", item, NoText, <<>>, FALSE)
     ELSE Call("onClickToEditReview", item, NoText,
               <<showEditReviewForm(Review(props.review).id)>>, FALSE)

\* onEscapeReviewOverlay clearing the flag of the entry itself instead of
\* dispatching the request.
onEscapeReviewOverlay_MutatesView(item) ==
  LET props == Props(item)
  IN IF props.review = Undefined
     THEN Call("onEscapeReviewOverlay", item, NoText, <<>>, FALSE)
     ELSE /\ view' = [view EXCEPT ![props.review].editingReview = FALSE]
          /\ last' = [op |-> "onEscapeReviewOverlay", item |-> item,
                      text |-> NoText, requests |-> <<>>, threw |-> FALSE]
          /\ UNCHANGED <<chainLen, userId, body, addon, user, authenticated,
                         errors, pending, inFlight>>

onEscapeReviewOverlay(item) ==
  LET props == Props(item)
  IN IF props.review = Undefined
     THEN Call("onEscapeReviewOverlay", item, NoText, <<>>, FALSE)
     ELSE Call("onEscapeReviewOverlay", item, NoText,
               <<hideEditReviewForm(Review(props.review).id)>>, FALSE)

\* onReviewSubmitted leaving the show/hide state alone.
onReviewSubmitted_NoHide(item) ==
  Call("onReviewSubmitted", item, NoText, <<>>, FALSE)

onReviewSubmitted(item) ==
  LET props == Props(item)
  IN IF props.review = Undefined
     THEN Call("onReviewSubmitted", item, NoText, <<>>, FALSE)
     ELSE Call("onReviewSubmitted", item, NoText,
               <<hideEditReviewForm(Review(props.review).id)>>, FALSE)

\* onClickToBeginReviewReply throwing, as onSubmitReviewReply does, when the
\* review is missing.
onClickToBeginReviewReply_Throws(item) ==
  LET props == Props(item)
  IN IF props.review = Undefined
     THEN Call("onClickToBeginReviewReply", item, NoText, <<>>, TRUE)
     ELSE Call("onClickToBeginReviewReply", item, NoText,
               <<showReplyToReviewForm(Review(props.review).id)>>, FALSE)

onClickToBeginReviewReply(item) ==
  LET props == Props(item)
  IN IF props.review = Undefined
     THEN Call("onClickToBeginReviewReply", item, NoText, <<>>, FALSE)
     ELSE Call("onClickToBeginReviewReply", item, NoText,
               <<showReplyToReviewForm(Review(props.review).id)>>, FALSE)

\* onDismissReviewReply calling the wrong action creator.
onDismissReviewReply_SendsReply(item) ==
  LET props == Props(item)
  IN IF props.review = Undefined
     THEN Call("onDismissReviewReply", item, NoText, <<>>, FALSE)
     ELSE Call("onDismissReviewReply", item, NoText,
               <<sendReplyToReview(props.errorHandlerId,
                                   Review(props.review).id, NoText)>>, FALSE)

onDismissReviewReply(item) ==
  LET props == Props(item)
  IN IF props.review = Undefined
     THEN Call("onDismissReviewReply", item, NoText, <<>>, FALSE)
     ELSE Call("onDismissReviewReply", item, NoText,
               <<hideReplyToReviewForm(Review(props.review).id)>>, FALSE)

\* onSubmitReviewReply logging and returning, as the other handlers do, when
\* the review is missing.
onSubmitReviewReply_NoThrow(item, text) ==
  LET props == Props(item)
  IN IF props.review = Undefined
     THEN Call("onSubmitReviewReply", item, text, <<>>, FALSE)
     ELSE Call("onSubmitReviewReply", item, text,
               <<sendReplyToReview(props.errorHandlerId,
                                   Review(props.review).id, text)>>, FALSE)

onSubmitReviewReply(item, text) ==
  LET props == Props(item)
  IN IF props.review = Undefined
     THEN Call("onSubmitReviewReply", item, text, <<>>, TRUE)
     ELSE Call("onSubmitReviewReply", item, text,
               <<sendReplyToReview(props.errorHandlerId,
                                   Review(props.review).id, text)>>, FALSE)

----------------------------------------------------------------------------
\* The store: amo/reducers/reviews and the reply request's response

changeViewState(k, editing, replying, submitting) ==
  [view EXCEPT ![k] = [present |-> TRUE, editingReview |-> editing,
                       replyingToReview |-> replying,
                       submittingReply |-> submitting]]

reviewsReducer(req) ==
  LET v == view[req.reviewId]
  IN CASE req.type = "SHOW_EDIT_REVIEW_FORM" ->
            changeViewState(req.reviewId, TRUE, v.replyingToReview,
                            v.submittingReply)
       [] req.type = "HIDE_EDIT_REVIEW_FORM" ->
            changeViewState(req.reviewId, FALSE, v.replyingToReview,
                            v.submittingReply)
       [] req.type = "SHOW_REPLY_TO_REVIEW_FORM" ->
            changeViewState(req.reviewId, v.editingReview, TRUE,
                            v.submittingReply)
       [] req.type = "HIDE_REPLY_TO_REVIEW_FORM" ->
            changeViewState(req.reviewId, v.editingReview, FALSE,
                            v.submittingReply)
       [] req.type = "SEND_REPLY_TO_REVIEW" ->
            changeViewState(req.reviewId, v.editingReview,
                            v.replyingToReview, TRUE)

\* The store commits the oldest dispatched request.
StoreCommit ==
  /\ pending # <<>>
  /\ LET req == Head(pending)
     IN /\ view' = reviewsReducer(req)
        /\ IF req.type = "SEND_REPLY_TO_REVIEW"
           THEN /\ req \in inFlight \/ Cardinality(inFlight) < MaxInFlight
                /\ inFlight' = inFlight \cup {req}
           ELSE inFlight' = inFlight
  /\ pending' = Tail(pending)
  /\ last' = StoreStep("StoreCommit", <<Head(pending)>>)
  /\ UNCHANGED <<chainLen, userId, body, addon, user, authenticated, errors>>

\* The reply of request req was saved: the form closes and the review carries
\* the reply.
ReplySaved(req) ==
  LET k == req.reviewId
  IN /\ k < MaxId
     /\ inFlight' = inFlight \ {req}
     /\ view' = changeViewState(k, view[k].editingReview, FALSE, FALSE)
     /\ body' = [body EXCEPT ![k + 1] = req.body]
     /\ IF k + 1 <= chainLen
        THEN UNCHANGED <<chainLen, userId>>
        ELSE /\ chainLen' = k + 1
             /\ \E u \in Users :
                  /\ user.id # Undefined => u = user.id
                  /\ userId' = [userId EXCEPT ![k + 1] = u]
     /\ last' = StoreStep("SendReplySuccess", <<req>>)
     /\ UNCHANGED <<addon, user, authenticated, errors, pending>>

\* The reply of request req was rejected: the error handler holds the error.
ReplyRejected(req) ==
  LET k == req.reviewId
  IN /\ inFlight' = inFlight \ {req}
     /\ view' = changeViewState(k, view[k].editingReview,
                                view[k].replyingToReview, FALSE)
     /\ errors' = errors \cup {req.errorHandlerId}
     /\ last' = StoreStep("SendReplyError", <<req>>)
     /\ UNCHANGED <<chainLen, userId, body, addon, user, authenticated,
                    pending>>

SendReplySuccess == \E req \in inFlight : ReplySaved(req)

SendReplyError == \E req \in inFlight : ReplyRejected(req)

\* The top-level review arrives, with or without a reply.
LoadReview ==
  /\ chainLen = 0
  /\ \E withReply \in BOOLEAN :
       LET n == IF withReply THEN 2 ELSE 1
       IN /\ chainLen' = n
          /\ \E f \in [1..n -> Users] :
               userId' = [k \in Ids |-> IF k <= n THEN f[k] ELSE 1]
          /\ \E t \in Texts :
               body' = [k \in Ids |-> IF k = 2 /\ withReply THEN t ELSE "a"]
  /\ last' = StoreStep("LoadReview", <<>>)
  /\ UNCHANGED <<addon, user, authenticated, view, errors, pending, inFlight>>

----------------------------------------------------------------------------
\* The page: a handler runs when the user acts on an element that is shown

ClickEditReview ==
  \E item \in Mounted : Render(item).editLink /\ onClickToEditReview(item)

EscapeReviewOverlay ==
  \E item \in Mounted : Render(item).editOverlay /\ onEscapeReviewOverlay(item)

ReviewSubmitted ==
  \E item \in Mounted : Render(item).editOverlay /\ onReviewSubmitted(item)

ClickBeginReviewReply ==
  \E item \in Mounted :
    Render(item).beginReply /\ onClickToBeginReviewReply(item)

DismissReviewReply ==
  \E item \in Mounted :
    Render(item).reply.kind = "DismissibleTextForm"
      /\ onDismissReviewReply(item)

\* The composer's submit wired on every mounted item that has a review,
\* whether or not the composer is rendered.
SubmitReviewReply_NotGated ==
  \E item \in Mounted, text \in Texts :
    item.review # Undefined
      /\ onSubmitReviewReply(item, text)

SubmitReviewReply ==
  \E item \in Mounted, text \in Texts :
    Render(item).reply.kind = "DismissibleTextForm"
      /\ onSubmitReviewReply(item, text)

Next ==
  \/ LoadReview
  \/ ClickEditReview
  \/ EscapeReviewOverlay
  \/ ReviewSubmitted
  \/ ClickBeginReviewReply
  \/ DismissReviewReply
  \/ SubmitReviewReply
  \/ StoreCommit
  \/ SendReplySuccess
  \/ SendReplyError

Spec == Init /\ [][Next]_vars

\* The server answers every send-reply request: for each review, a response to
\* an outstanding request for it eventually arrives.
RespondTo(k) ==
  \E req \in inFlight :
    req.reviewId = k /\ (ReplySaved(req) \/ ReplyRejected(req))

SpecFair == Spec /\ \A k \in Ids : WF_vars(RespondTo(k))

\* The loading window: until the review arrives, a handler can also run on an
\* item that has no review, whatever the item shows.
UnloadedItems ==
  IF chainLen = 0 THEN {item \in Items : item.review = Undefined} ELSE {}

CallOnClickToEditReview ==
  \E item \in UnloadedItems : onClickToEditReview(item)

CallOnEscapeReviewOverlay ==
  \E item \in UnloadedItems : onEscapeReviewOverlay(item)

CallOnReviewSubmitted ==
  \E item \in UnloadedItems : onReviewSubmitted(item)

CallOnClickToBeginReviewReply ==
  \E item \in UnloadedItems : onClickToBeginReviewReply(item)

CallOnDismissReviewReply ==
  \E item \in UnloadedItems : onDismissReviewReply(item)

CallOnSubmitReviewReply ==
  \E item \in UnloadedItems, text \in Texts : onSubmitReviewReply(item, text)

NextDirect ==
  \/ LoadReview
  \/ ClickEditReview
  \/ EscapeReviewOverlay
  \/ ReviewSubmitted
  \/ ClickBeginReviewReply
  \/ DismissReviewReply
  \/ SubmitReviewReply
  \/ CallOnClickToEditReview
  \/ CallOnEscapeReviewOverlay
  \/ CallOnReviewSubmitted
  \/ CallOnClickToBeginReviewReply
  \/ CallOnDismissReviewReply
  \/ CallOnSubmitReviewReply
  \/ StoreCommit
  \/ SendReplySuccess
  \/ SendReplyError

SpecDirect == Init /\ [][NextDirect]_vars

----------------------------------------------------------------------------
\* Properties

\* C1: for every item and every state, the edit link is shown if and only if
\* the viewer is authenticated, the review is present and the review's author
\* is the viewer; nothing else (view flags, reply view, add-on) matters.
C1_EditLinkIffOwnReview ==
  \A item \in Items :
    Render(item).editLink <=>
      /\ authenticated
      /\ item.review # Undefined
      /\ userId[item.review] = user.id

\* A state where one item shows the edit link and another item, loaded and
\* seen by the same authenticated viewer, does not.
C1_Witness ==
  \E i, j \in Items :
    /\ Render(i).editLink
    /\ j.review # Undefined /\ authenticated /\ ~Render(j).editLink

\* C2: the "Reply to this review" link is shown if and only if review, add-on
\* and viewer are present, the item is not replying, the review has no reply,
\* the viewer is an author of the add-on and not the author of the review; so
\* a review that has a reply never shows it.
C2_BeginReplyIffAllowed ==
  \A item \in Items :
    /\ Render(item).beginReply <=>
         /\ item.review # Undefined
         /\ addon.present
         /\ user.present
         /\ ~(view[item.review].present /\ view[item.review].replyingToReview)
         /\ item.review + 1 > chainLen
         /\ user.id \in addon.authors
         /\ userId[item.review] # user.id
    /\ (item.review # Undefined /\ item.review + 1 <= chainLen)
         => ~Render(item).beginReply

\* A state where one item shows the link and another does not show it only
\* because its review has a reply.
C2_Witness ==
  \E i, j \in Items :
    /\ Render(i).beginReply
    /\ j.review # Undefined
    /\ j.review + 1 <= chainLen
    /\ user.id \in addon.authors
    /\ userId[j.review] # user.id
    /\ ~view[j.review].replyingToReview
    /\ ~Render(j).beginReply

\* C3: begin-edit on a reply view (isReplyToReviewId set, review present or
\* not) dispatches exactly one show-reply-form request for isReplyToReviewId;
\* on a top-level view with a review it dispatches exactly one show-edit-form
\* request for the review's identifier.
C3_BeginEditRoutesByViewKind ==
  last.op = "onClickToEditReview" =>
    /\ last.item.isReplyToReviewId # Undefined =>
         /\ Len(last.requests) = 1
         /\ last.requests[1].type = "SHOW_REPLY_TO_REVIEW_FORM"
         /\ last.requests[1].reviewId = last.item.isReplyToReviewId
         /\ pending # <<>> /\ pending[Len(pending)] = last.requests[1]
    /\ (last.item.isReplyToReviewId = Undefined
          /\ last.item.review # Undefined) =>
         /\ Len(last.requests) = 1
         /\ last.requests[1].type = "SHOW_EDIT_REVIEW_FORM"
         /\ last.requests[1].reviewId = last.item.review
         /\ pending # <<>> /\ pending[Len(pending)] = last.requests[1]

\* begin-edit has just run on a reply view whose review is absent.
C3_Witness ==
  /\ last.op = "onClickToEditReview"
  /\ last.item.isReplyToReviewId # Undefined
  /\ last.item.review = Undefined
  /\ last.requests # <<>>

\* C4: submit-reply without a review throws, dispatches nothing and leaves the
\* ViewState as it was; with a review it dispatches exactly one send-reply
\* request carrying the error handler's id, the review's identifier and the
\* submitted text.
C4_SubmitReplyThrowsOrSends ==
  [][last'.op = "onSubmitReviewReply" =>
       IF last'.item.review = Undefined
       THEN /\ last'.threw
            /\ last'.requests = <<>>
            /\ pending' = pending
            /\ view' = view
       ELSE /\ ~last'.threw
            /\ Len(last'.requests) = 1
            /\ last'.requests[1].type = "SEND_REPLY_TO_REVIEW"
            /\ last'.requests[1].errorHandlerId = ErrorHandlerId(last'.item)
            /\ last'.requests[1].reviewId = last'.item.review
            /\ last'.requests[1].body = last'.text
            /\ pending' = Append(pending, last'.requests[1])
            /\ view' = view]_vars

\* submit-reply has just run without a review.
C4_Witness ==
  /\ last.op = "onSubmitReviewReply"
  /\ last.item.review = Undefined
  /\ last.threw

ShowHideHandlers ==
  {"onClickToEditReview", "onEscapeReviewOverlay", "onReviewSubmitted",
   "onClickToBeginReviewReply", "onDismissReviewReply"}

\* C5 as stated: each of begin-edit, cancel-edit, commit-edit, begin-reply and
\* cancel-reply, run without a review, dispatches nothing, does not throw and
\* leaves the ViewState as it was.
C5_NoReviewIsNoOp ==
  [][(last'.op \in ShowHideHandlers /\ last'.item.review = Undefined) =>
       /\ last'.requests = <<>>
       /\ ~last'.threw
       /\ pending' = pending
       /\ view' = view]_vars

\* C5 amended: the same, except that begin-edit on a reply view
\* (isReplyToReviewId set) without a review dispatches one show-reply-form
\* request for isReplyToReviewId; no handler changes the ViewState or throws.
C5_NoReviewIsNoOpExceptReplyEdit ==
  [][(last'.op \in ShowHideHandlers /\ last'.item.review = Undefined) =>
       /\ ~last'.threw
       /\ view' = view
       /\ IF last'.op = "onClickToEditReview"
             /\ last'.item.isReplyToReviewId # Undefined
          THEN /\ last'.requests =
                    <<[type |-> "SHOW_REPLY_TO_REVIEW_FORM",
                       reviewId |-> last'.item.isReplyToReviewId,
                       errorHandlerId |-> 0, body |-> NoText]>>
               /\ pending' = Append(pending, last'.requests[1])
          ELSE /\ last'.requests = <<>>
               /\ pending' = pending]_vars

\* begin-reply has just run without a review, on a reply view, and did nothing.
C5_Witness ==
  /\ last.op = "onClickToBeginReviewReply"
  /\ last.item.review = Undefined
  /\ last.item.isReplyToReviewId # Undefined
  /\ last.requests = <<>>
  /\ pending = <<>>

\* C6: an item without a review shows placeholders for title, byline and
\* body, and shows no edit link, edit overlay, reply link, rating or reply
\* content block, whoever the viewer is and whatever the store holds.
C6_NoReviewShowsOnlyPlaceholders ==
  \A item \in Items :
    item.review = Undefined =>
      LET r == Render(item)
      IN /\ r.title = "LoadingText"
         /\ r.byline = "LoadingText"
         /\ r.reviewBody = "LoadingText"
         /\ ~r.editLink
         /\ ~r.editOverlay
         /\ ~r.beginReply
         /\ ~r.rating
         /\ r.reply.kind = "null"

\* The review is not loaded while an authenticated add-on author is viewing
\* and the store already holds a replying entry.
C6_Witness ==
  /\ chainLen = 0
  /\ authenticated
  /\ user.id \in addon.authors
  /\ \E k \in Ids : view[k].replyingToReview

ReplyFormRequests ==
  {"SHOW_REPLY_TO_REVIEW_FORM", "HIDE_REPLY_TO_REVIEW_FORM"}

\* C7: when the store commits a show-reply-form or hide-reply-form request for
\* a loaded review, every item of that review shows the reply composer after a
\* show and does not show it after a hide, whatever the state was before; a
\* request that repeats the current mode leaves the ViewState as it was.
C7_ReplyModeFollowsLastRequest ==
  [][(last'.op = "StoreCommit"
        /\ last'.requests[1].type \in ReplyFormRequests) =>
       LET req == last'.requests[1]
           show == req.type = "SHOW_REPLY_TO_REVIEW_FORM"
       IN /\ \A item \in Items' :
               item.review = req.reviewId =>
                 ((Render(item).reply.kind)' = "DismissibleTextForm") <=> show
          /\ (view[req.reviewId].present
                /\ view[req.reviewId].replyingToReview = show) =>
               view' = view]_vars

\* The store has just committed a hide-reply-form request for a loaded review
\* and the composer is not shown.
C7_Witness ==
  /\ last.op = "StoreCommit"
  /\ last.requests[1].type = "HIDE_REPLY_TO_REVIEW_FORM"
  /\ last.requests[1].reviewId <= chainLen
  /\ Render(ItemOf(Undefined, last.requests[1].reviewId)).reply.kind
       # "DismissibleTextForm"

\* C8 as stated: with only the requests the page lets the viewer issue, no
\* review identifier ever has editingReview and replyingToReview both true.
C8_NeverEditingAndReplying ==
  \A k \in Ids : ~(view[k].editingReview /\ view[k].replyingToReview)

\* C9: submittingReply is true for a review only while a send-reply request
\* for it is outstanding; it becomes true only when the store commits a
\* send-reply request, and only submit-reply dispatches such a request.
C9_SubmittingOnlyWhileReplyOutstanding ==
  /\ [](\A k \in Ids :
          view[k].submittingReply =>
            \E req \in inFlight : req.reviewId = k)
  /\ [][\A k \in Ids :
          (~view[k].submittingReply /\ view'[k].submittingReply) =>
            /\ last'.op = "StoreCommit"
            /\ last'.requests[1].type = "SEND_REPLY_TO_REVIEW"
            /\ last'.requests[1].reviewId = k]_vars
  /\ [][last'.op # "onSubmitReviewReply" =>
          \A i \in 1..Len(pending') :
            pending'[i].type = "SEND_REPLY_TO_REVIEW" =>
              \E j \in 1..Len(pending) : pending[j] = pending'[i]]_vars

\* The store has just committed a send-reply request: the review is
\* submitting and its request is outstanding.
C9_Witness ==
  /\ last.op = "StoreCommit"
  /\ last.requests[1].type = "SEND_REPLY_TO_REVIEW"
  /\ view[last.requests[1].reviewId].submittingReply
  /\ last.requests[1] \in inFlight

\* C10 as stated: cancel-reply never dispatches a hide-reply-form request for
\* a review whose reply is being submitted (submittingReply true and the
\* send-reply request outstanding).
C10_NoCancelWhileSubmitting ==
  ~(/\ last.op = "onDismissReviewReply"
    /\ last.requests # <<>>
    /\ last.requests[1].type = "HIDE_REPLY_TO_REVIEW_FORM"
    /\ view[last.requests[1].reviewId].submittingReply
    /\ \E req \in inFlight : req.reviewId = last.requests[1].reviewId)

\* C11: when the server answers every send-reply request, a review whose item
\* sees submittingReply true is eventually seen with submittingReply false,
\* whether the answer is a success or an error.
C11_SubmittingEventuallyEnds ==
  \A k \in Ids :
    mapStateToProps(ItemOf(Undefined, k)).submittingReply
      ~> ~mapStateToProps(ItemOf(Undefined, k)).submittingReply

\* The error response to a send-reply request has just arrived and the review
\* is no longer submitting.
C11_Witness ==
  /\ last.op = "SendReplyError"
  /\ view[last.requests[1].reviewId].present
  /\ ~mapStateToProps(ItemOf(Undefined, last.requests[1].reviewId))
        .submittingReply

Handlers == ShowHideHandlers \cup {"onSubmitReviewReply"}

StoreSteps == {"StoreCommit", "SendReplySuccess", "SendReplyError"}

\* C12: a handler's own step dispatches at most one request and changes no
\* ViewState entry; a ViewState entry changes only in a step of the store: the
\* commit of a dispatched request or a send-reply response.
C12_OnlyTheStoreChangesViewState ==
  [][/\ last'.op \in Handlers =>
          /\ view' = view
          /\ Len(last'.requests) <= 1
          /\ pending' = pending \o last'.requests
     /\ view' # view =>
          /\ last'.op \in StoreSteps
          /\ last'.op = "StoreCommit" =>
               /\ pending # <<>>
               /\ last'.requests = <<Head(pending)>>]_vars

\* cancel-edit has just run for a review that is being edited: the request is
\* in the queue and the entry still has editingReview true.
C12_Witness ==
  /\ last.op = "onEscapeReviewOverlay"
  /\ last.requests # <<>>
  /\ pending # <<>>
  /\ view[last.item.review].editingReview

\* C13: on the page, begin-edit on the top-level item requests show-edit-form
\* for its review; cancel-edit and commit-edit run only while the edit overlay
\* is displayed and request hide-edit-form for the same review; once the store
\* commits a hide-edit-form the overlay is gone and the edit link is still
\* there, and once it commits a show-edit-form the overlay is displayed.
C13_EditFlow ==
  /\ [](/\ (last.op = "onClickToEditReview"
              /\ last.item.isReplyToReviewId = Undefined) =>
             /\ last.item.review # Undefined
             /\ last.requests =
                  <<[type |-> "SHOW_EDIT_REVIEW_FORM",
                     reviewId |-> last.item.review,
                     errorHandlerId |-> 0, body |-> NoText]>>
        /\ last.op \in {"onEscapeReviewOverlay", "onReviewSubmitted"} =>
             /\ last.item.review # Undefined
             /\ last.requests =
                  <<[type |-> "HIDE_EDIT_REVIEW_FORM",
                     reviewId |-> last.item.review,
                     errorHandlerId |-> 0, body |-> NoText]>>
             /\ view[last.item.review].editingReview
             /\ Render(last.item).editLink
             /\ Render(last.item).editOverlay
        /\ last.op = "StoreCommit" =>
             LET req == last.requests[1]
                 item == ItemOf(Undefined, req.reviewId)
             IN /\ req.type = "HIDE_EDIT_REVIEW_FORM" =>
                     /\ ~Render(item).editOverlay
                     /\ Render(item).editLink
                /\ req.type = "SHOW_EDIT_REVIEW_FORM" =>
                     Render(item).editOverlay)

\* The store has just committed the hide-edit-form of a cancel-edit or
\* commit-edit: the overlay is gone and the edit link is shown.
C13_Witness ==
  /\ last.op = "StoreCommit"
  /\ last.requests[1].type = "HIDE_EDIT_REVIEW_FORM"
  /\ ~Render(ItemOf(Undefined, last.requests[1].reviewId)).editOverlay
  /\ Render(ItemOf(Undefined, last.requests[1].reviewId)).editLink

\* C14: for an item with a loaded review, the reply content block is rendered
\* iff the review has a reply or replyingToReview is true; it is the composer
\* exactly when replyingToReview is true (pre-filled with the reply's body and
\* labelled 'update' when a reply exists, empty and labelled 'publish'
\* otherwise), and the nested item for the reply (isReplyToReviewId = the
\* review's id, review = the reply) exactly when replyingToReview is false and
\* a reply exists.
C14_ReplyBlock ==
  \A item \in Items :
    item.review # Undefined =>
      LET k == item.review
          r == Render(item).reply
          hasReply == k + 1 <= chainLen
          replying == view[k].present /\ view[k].replyingToReview
      IN /\ r.kind # "null" <=> (hasReply \/ replying)
         /\ r.kind = "DismissibleTextForm" <=> replying
         /\ r.kind = "AddonReviewListItem" <=> (~replying /\ hasReply)
         /\ (replying /\ hasReply) =>
              /\ r.text = body[k + 1]
              /\ r.submitButtonText = "Update reply"
              /\ r.submitButtonInProgressText = "Updating reply"
         /\ (replying /\ ~hasReply) =>
              /\ r.text = NoText
              /\ r.submitButtonText = "Publish reply"
              /\ r.submitButtonInProgressText = "Publishing reply"
         /\ (~replying /\ hasReply) =>
              r.child = [isReplyToReviewId |-> k, review |-> k + 1]

\* The page shows a composer pre-filled with the existing reply's body.
C14_Witness ==
  /\ chainLen = 2
  /\ view[1].present /\ view[1].replyingToReview
  /\ Render(RootItem).reply.kind = "DismissibleTextForm"
  /\ Render(RootItem).reply.text = body[2]
  /\ Render(RootItem).reply.submitButtonText = "Update reply"

\* C15: an item renders the error exactly when its error handler has one, and
\* a displayed composer is shown as in progress exactly when submittingReply
\* is true and the error handler has no error; when a send-reply is rejected,
\* the item that sent it renders the error, its composer is not in progress,
\* and a composer that was displayed stays displayed.
C15_RejectedReplyShowsError ==
  /\ [](\A item \in Items :
          item.review # Undefined =>
            LET hasError == ErrorHandlerId(item) \in errors
            IN /\ Render(item).error <=> hasError
               /\ Render(item).reply.kind = "DismissibleTextForm" =>
                    (Render(item).reply.isSubmitting
                       <=> (view[item.review].submittingReply /\ ~hasError)))
  /\ [][last'.op = "SendReplyError" =>
          \A item \in Items :
            ErrorHandlerId(item) = last'.requests[1].errorHandlerId =>
              /\ Render(item)'.error
              /\ ~Render(item)'.reply.isSubmitting
              /\ Render(item).reply.kind = "DismissibleTextForm" =>
                   Render(item)'.reply.kind = "DismissibleTextForm"]_vars

\* After a rejected send-reply the composer on the page has sent again: the
\* store's submittingReply is true, the error is rendered and the composer is
\* not shown as in progress.
C15_Witness ==
  \E item \in Mounted :
    /\ item.review # Undefined
    /\ ErrorHandlerId(item) \in errors
    /\ view[item.review].submittingReply
    /\ Render(item).error
    /\ Render(item).reply.kind = "DismissibleTextForm"
    /\ ~Render(item).reply.isSubmitting

\* C16: an item rendered as a reply (isReplyToReviewId set) never renders a
\* reply content block of its own and never shows the "Reply to this review"
\* link, whoever the viewer is.
C16_ReplyNestingCapped ==
  \A item \in Mounted :
    item.isReplyToReviewId # Undefined =>
      /\ Render(item).reply.kind = "null"
      /\ ~Render(item).beginReply

\* C17: the three flags an item gets are all false when its review is absent
\* or the store has no entry for the review's identifier, and otherwise are
\* the flags of the store's entry for that identifier; the entry of any other
\* identifier, the parent's included, has no influence.
C17_FlagsAreTheReviewsEntry ==
  \A item \in Items :
    LET m == mapStateToProps(item)
    IN IF item.review = Undefined \/ ~view[item.review].present
       THEN /\ ~m.editingReview
            /\ ~m.replyingToReview
            /\ ~m.submittingReply
       ELSE /\ m.editingReview = view[item.review].editingReview
            /\ m.replyingToReview = view[item.review].replyingToReview
            /\ m.submittingReply = view[item.review].submittingReply

\* The parent review is being edited while its reply has no entry: the
\* top-level item sees editingReview, the nested reply item does not.
C17_Witness ==
  /\ chainLen = 2
  /\ view[1].present /\ view[1].editingReview
  /\ ~view[2].present
  /\ ItemOf(1, 2) \in Mounted
  /\ mapStateToProps(ItemOf(Undefined, 1)).editingReview
  /\ ~mapStateToProps(ItemOf(1, 2)).editingReview

\* C18: on the page, a handler dispatches a send-reply only for the review of
\* its own item and only while that item displays the composer (review
\* present, replyingToReview true); replyingToReview of a review turns true
\* only when the store commits a show-reply-form for that review, and is false
\* once the store commits a hide-reply-form for it, so every send-reply comes
\* after a show-reply-form for the same review with no hide-reply-form
\* committed in between.
C18_SendReplyOnlyFromComposer ==
  /\ [](last.op \in Handlers =>
          \A i \in 1..Len(last.requests) :
            last.requests[i].type = "SEND_REPLY_TO_REVIEW" =>
              /\ last.item.review # Undefined
              /\ last.requests[i].reviewId = last.item.review
              /\ view[last.item.review].present
              /\ view[last.item.review].replyingToReview
              /\ Render(last.item).reply.kind = "DismissibleTextForm")
  /\ [][\A k \in Ids :
          /\ (~view[k].replyingToReview /\ view'[k].replyingToReview) =>
               /\ last'.op = "StoreCommit"
               /\ last'.requests =
                    <<[type |-> "SHOW_REPLY_TO_REVIEW_FORM", reviewId |-> k,
                       errorHandlerId |-> 0, body |-> NoText]>>
          /\ (/\ last'.op = "StoreCommit"
              /\ last'.requests =
                   <<[type |-> "HIDE_REPLY_TO_REVIEW_FORM", reviewId |-> k,
                      errorHandlerId |-> 0, body |-> NoText]>>) =>
               ~view'[k].replyingToReview]_vars

\* The composer of an item on the page has just dispatched a send-reply.
C18_Witness ==
  /\ last.op = "onSubmitReviewReply"
  /\ ~last.threw
  /\ Len(last.requests) = 1
  /\ last.requests[1].type = "SEND_REPLY_TO_REVIEW"
  /\ last.requests[1].reviewId = last.item.review
  /\ view[last.item.review].replyingToReview

\* C19: no item, whatever its props, shows the edit link and the "Reply to
\* this review" link together: the edit link is shown only to the review's
\* author, the reply link only to somebody else.
C19_EditAndBeginReplyExclusive ==
  \A item \in Items :
    /\ ~(Render(item).editLink /\ Render(item).beginReply)
    /\ Render(item).editLink =>
         (item.review # Undefined /\ userId[item.review] = user.id)
    /\ Render(item).beginReply =>
         (item.review # Undefined /\ userId[item.review] # user.id)

\* An add-on author looks at their own review, which has no reply and no open
\* composer: the edit link is shown, the reply link is not.
C19_Witness ==
  \E item \in Mounted :
    /\ item.review # Undefined
    /\ isAddonAuthor(addon, user.id)
    /\ userId[item.review] = user.id
    /\ item.review = chainLen
    /\ ~view[item.review].replyingToReview
    /\ Render(item).editLink
    /\ ~Render(item).beginReply

====
